---- MODULE Spec2Model ----
(***************************************************************************)
(* Model of the pitch sampler plugin (src/Main.cpp): the circular          *)
(* recording buffer, the Recording -> Trimming -> Sampling session, the    *)
(* trim region and preview playback, pitch analysis and the sampler voice. *)
(*                                                                         *)
(* Numbers: positions of the trim region are kept in thousandths           *)
(* (PosDen), so 0.01f is EpsMilli = 10; float rounding error is not        *)
(* modelled.  Buffer lengths are scaled: the ring holds CapRate * 60       *)
(* samples where the program has 48000 * 60.                               *)
(***************************************************************************)
EXTENDS Integers, Sequences, FiniteSets, TLC

VARIABLES
    state,            \* PluginState
    circularBuffer,   \* CircularAudioBuffer: [buffer, writePos, size]
    trimmedBuffer,    \* juce::AudioBuffer<float>, one sequence of samples per channel
    bufferDuration,   \* seconds
    startPosition,    \* thousandths
    endPosition,      \* thousandths
    noteHistogram,    \* std::map<int, int>: a function from the notes seen to counts
    mostCommonNote,
    isPreviewActive,
    previewPosition,
    sampleRate,       \* getSampleRate(), fixed by the host
    pitchDetector,    \* PitchDetector, made by prepareToPlay
    sounds,           \* the sounds of the juce::Synthesiser: BufferedSamplerSound records
    voices,           \* the voices of the juce::Synthesiser: BufferedSamplerVoice records
    shown,            \* which groups of controls the editor shows
    out,              \* what the last processBlock left in the host's buffer
    previewWindow,    \* history: startSample, endSample of the last previewTrimmedSample
    stream,           \* history: per channel, every sample written to the ring, in order
    probe             \* history: the last call made and what it did

\* BufferedRecorderSamplerProcessor without its ring
procVars == <<state, trimmedBuffer, bufferDuration, startPosition, endPosition,
              noteHistogram, mostCommonNote, isPreviewActive, previewPosition,
              sampleRate, pitchDetector, sounds, voices>>

\* everything but the ring, its history and the last call
sessionVars == <<procVars, shown, out, previewWindow>>

vars == <<circularBuffer, sessionVars, stream, probe>>

-----------------------------------------------------------------------------
(* Program constants and bounds *)

NumChannels == 2          \* stereo ring and trimmed buffer
Uninit == -99             \* a sample cell that was allocated and never written
SmallSize == 4            \* capacity of the ring in the ring-only specification
MaxBlock == 6             \* longest block written in the ring-only specification
MaxRingWritten == 11      \* samples written in the ring-only specification
CapRate == 20             \* stands for the 48000 of the ring's capacity, 48000 * 60
RingSeconds == 60         \* the 60 of the ring's capacity
MaxRecTicks == 2          \* processing ticks that record
PosDen == 1000            \* trim positions are counted in thousandths
EpsMilli == 10            \* 0.01f
ChunkSize == 8            \* stands for the 2048 samples of an analysis chunk
HostBlock == 8            \* samplesPerBlock given to prepareToPlay
NumVoices == 16
MaxVoicesUsed == 1        \* note-ons are taken while a voice up to this one is free
GarbageNote == 69         \* a note that analysis of indeterminate samples may give
MaxBlocks == 5            \* blocks a voice on its own renders after a note-on
MaxAnalysed == 0          \* previews are taken while the histogram counts at most this
MaxCount == 3             \* highest count of a note in the histogram-only specification
MaxChunks == 2            \* chunks of one pass in the histogram-only specification
YinFrame == 32            \* samples of a frame in the estimator-only specification
MaxPeriod == 17           \* longest pulse train in the estimator-only specification
MaxCounted == 20          \* previews are repeated while the histogram counts at most this
MaxSnapTicks == 3         \* blocks recorded up to the end of the snapshot specification

RingSize == CapRate * RingSeconds
BlockLen == (2 * RingSize) \div 3           \* samples per processing tick
SampleRates == {CapRate}                    \* host sample rates
Durations == {10, 30, 60}                   \* the three duration buttons
SliderValues == {500}                       \* values a slider is dragged to in a session
BlockSizes == {1, 526}                      \* block lengths a voice on its own renders
VoiceNotes == {48, 60, 67, 72}              \* notes started on a voice on its own
AssetLengths == {3, 600}                    \* lengths of the sound it plays
FineSliderValues == {0, 5, 10, 250, 500, 502, 990, 995, 1000}
Tones == {"A", "S"}                         \* input signals: period 2, silence
SessionNotes == {60}                        \* notes played in the session
Velocities == {1000}                        \* thousandths
MidiNotes == 0..127
ChunkResults == {-1, 60, 64, 67}

Channels == 1..NumChannels

Min(a, b) == IF a < b THEN a ELSE b
Max(a, b) == IF a > b THEN a ELSE b

\* C++ integer remainder: truncates toward zero, the sign follows the dividend
CRem(a, b) == IF a >= 0 THEN a % b ELSE -((-a) % b)

\* juce::AudioBuffer<float>(numChannels, numSamples): allocated, not cleared
NewBuffer(numCh, len) == [c \in 1..numCh |-> [i \in 1..len |-> Uninit]]

\* a buffer of zeros (AudioBuffer::clear / setSize with clearExtraSpace)
ClearBuffer(numCh, len) == [c \in 1..numCh |-> [i \in 1..len |-> 0]]

NumSamples(buf) == IF Len(buf) = 0 THEN 0 ELSE Len(buf[1])

-----------------------------------------------------------------------------
(* CircularAudioBuffer *)

CircularAudioBuffer(numChannels, maxLengthInSamples) ==
    [buffer |-> NewBuffer(numChannels, maxLengthInSamples),
     writePos |-> 0,
     size |-> maxLengthInSamples]

\* The inner loop of write for one channel: sample i of the source goes to cell
\* (writePos + i) mod size, later samples overwriting earlier ones.  Cell p
\* (1-based) is o = (p - 1 - writePos) mod size steps ahead of the cursor; the
\* last source index that lands on it is the largest i < n with i = o (mod size).
WriteChannel(data, writePos, size, src) ==
    [p \in 1..size |->
        LET o == (p - 1 - writePos) % size
        IN  IF o >= Len(src) THEN data[p]
            ELSE src[o + size * ((Len(src) - 1 - o) \div size) + 1]]

\* a faulty write whose cursor wraps by one subtraction of the size
CbWriteWrapOnce(cb, sourceBuffer) ==
    LET numSamples == NumSamples(sourceBuffer)
        numChannels == Min(Len(sourceBuffer), Len(cb.buffer))
    IN  [cb EXCEPT
            !.buffer = [c \in 1..Len(cb.buffer) |->
                           IF c <= numChannels
                           THEN WriteChannel(cb.buffer[c], cb.writePos, cb.size,
                                             sourceBuffer[c])
                           ELSE cb.buffer[c]],
            !.writePos = IF cb.writePos + numSamples >= cb.size
                         THEN cb.writePos + numSamples - cb.size
                         ELSE cb.writePos + numSamples]

\* write(sourceBuffer)
CbWrite(cb, sourceBuffer) ==
    LET numSamples == NumSamples(sourceBuffer)
        numChannels == Min(Len(sourceBuffer), Len(cb.buffer))
    IN  [cb EXCEPT
            !.buffer = [c \in 1..Len(cb.buffer) |->
                           IF c <= numChannels
                           THEN WriteChannel(cb.buffer[c], cb.writePos, cb.size,
                                             sourceBuffer[c])
                           ELSE cb.buffer[c]],
            !.writePos = (cb.writePos + numSamples) % cb.size]

\* copyTo with a read cursor that starts one cell late
CbCopyToLate(cb, destBuffer, startSample, endSample) ==
    LET numChannels == Min(Len(destBuffer), Len(cb.buffer))
        numSamples == Min(NumSamples(destBuffer), endSample - startSample)
        r0 == CRem(cb.writePos - cb.size + startSample + 1, cb.size)
        readPos == IF r0 < 0 THEN r0 + cb.size ELSE r0
    IN  [c \in 1..Len(destBuffer) |->
            [i \in 1..NumSamples(destBuffer) |->
                IF c <= numChannels /\ i <= numSamples
                THEN cb.buffer[c][((readPos + i - 1) % cb.size) + 1]
                ELSE destBuffer[c][i]]]

\* copyTo: the value of destBuffer after the call
CbCopyTo(cb, destBuffer, startSample, endSample) ==
    LET numChannels == Min(Len(destBuffer), Len(cb.buffer))
        numSamples == Min(NumSamples(destBuffer), endSample - startSample)
        r0 == CRem(cb.writePos - cb.size + startSample, cb.size)
        readPos == IF r0 < 0 THEN r0 + cb.size ELSE r0
    IN  [c \in 1..Len(destBuffer) |->
            [i \in 1..NumSamples(destBuffer) |->
                IF c <= numChannels /\ i <= numSamples
                THEN cb.buffer[c][((readPos + i - 1) % cb.size) + 1]
                ELSE destBuffer[c][i]]]

-----------------------------------------------------------------------------
(* PitchDetector.  Samples are small integers, so the difference function  *)
(* is exact; a normalised value is a fraction [n, d] with d > 0, or NaN    *)
(* (0 * inf, when the running sum is still 0).                             *)

RECURSIVE Gcd(_, _)
Gcd(a, b) == IF b = 0 THEN a ELSE Gcd(b, a % b)

\* yinBuffer.resize(bufferSize / 2)
PitchDetector(rate, bufferSize) == [sampleRate |-> rate, yinSize |-> bufferSize \div 2]

RECURSIVE SumSq(_, _, _, _)
\* sum over j in 0..w-1 of (buffer[j] - buffer[j + tau])^2, from j upward
SumSq(buffer, w, tau, j) ==
    IF j >= w THEN 0
    ELSE (buffer[j + 1] - buffer[j + tau + 1]) * (buffer[j + 1] - buffer[j + tau + 1])
         + SumSq(buffer, w, tau, j + 1)

\* step 1: the difference function, for each lag 0..w-1 (1-based sequence)
YinDifference(buffer, w) == [t \in 1..w |-> SumSq(buffer, w, t - 1, 0)]

RECURSIVE RunningSum(_, _)
\* sum of the raw values of lags 1..tau
RunningSum(d, tau) == IF tau = 0 THEN 0 ELSE d[tau + 1] + RunningSum(d, tau - 1)

NaN == [n |-> 0, d |-> 0]

Frac(n, d) == LET g == Gcd(n, d) IN [n |-> n \div g, d |-> d \div g]

\* step 2: yinBuffer[0] = 1; yinBuffer[tau] *= tau / sum
YinNormalised(d, w) ==
    [t \in 1..w |->
        IF t = 1 THEN [n |-> 1, d |-> 1]
        ELSE LET sum == RunningSum(d, t - 1)
             IN  IF sum = 0 THEN NaN ELSE Frac(d[t] * (t - 1), sum)]

\* x < y on floats: false when either is NaN
Less(x, y) == x.d # 0 /\ y.d # 0 /\ x.n * y.d < y.n * x.d

Threshold == [n |-> 1, d |-> 10]       \* 0.1f

\* sampleRate / (tau + p) with p = 0.5 * (alpha - gamma) / (alpha - 2 beta + gamma),
\* as a fraction in Hz
RefinedFrequency(rate, tau, alpha, beta, gamma) ==
    LET a == alpha.n * beta.d * gamma.d
        b == beta.n * alpha.d * gamma.d
        g == gamma.n * alpha.d * beta.d
        den == a - 2 * b + g
    IN  Frac(rate * 2 * den, 2 * tau * den + a - g)

\* milli-Hz where the nearest note changes, for notes 0..11: 440 * 2^((k - 69.5) / 12)
NoteEdge == <<7943, 8415, 8916, 9446, 10008, 10603, 11233, 11901, 12609, 13359,
              14153, 14994>>

RECURSIVE NearestNote(_, _)
\* roundToInt(12 * log2(f / 440) + 69) for f = fn / fd > 0
NearestNote(fn, fd) ==
    IF fn * 1000 >= 2 * NoteEdge[1] * fd THEN 12 + NearestNote(fn, 2 * fd)
    ELSE IF fn * 1000 < NoteEdge[1] * fd THEN NearestNote(2 * fn, fd) - 12
    ELSE Cardinality({k \in 1..12 : fn * 1000 >= NoteEdge[k] * fd}) - 1

\* midiNoteFromFrequency; a frequency is a fraction, 0 Hz is [n |-> 0, d |-> 1]
MidiNoteFromFrequency(f) == IF f.n <= 0 THEN -1 ELSE NearestNote(f.n, f.d)

NoPitch == [n |-> 0, d |-> 1]

\* The chunk holds a sample the program never wrote, or the difference function
\* reads past the end of the chunk: the floats involved are indeterminate.
IndeterminateFrame(buffer, w) ==
    \/ 2 * w - 2 >= Len(buffer)
    \/ \E i \in 1..Len(buffer) : buffer[i] = Uninit

RECURSIVE YinScan(_, _, _, _)
\* step 3, from lag tau: the first lag under the threshold that is lower than both
\* neighbours.  The result is the set of frequencies the call can return: at the
\* last lag, tau = w - 1, yinBuffer[tau + 1] is read past the end of the vector and
\* may compare either way.
YinScan(y, w, rate, tau) ==
    IF tau >= w THEN {NoPitch}
    ELSE IF Less(y[tau + 1], Threshold) /\ Less(y[tau + 1], y[tau])
         THEN IF tau + 1 < w
              THEN IF Less(y[tau + 1], y[tau + 2])
                   THEN {RefinedFrequency(rate, tau, y[tau], y[tau + 1], y[tau + 2])}
                   ELSE YinScan(y, w, rate, tau + 1)
              ELSE {NoPitch, Frac(rate, tau)}
         ELSE YinScan(y, w, rate, tau + 1)

\* PitchDetector::detectPitch on a frame without indeterminate samples
YinDetectPitch(pd, buffer) ==
    LET w == pd.yinSize
    IN  YinScan(YinNormalised(YinDifference(buffer, w), w), w, pd.sampleRate, 2)

-----------------------------------------------------------------------------
(* BufferedSamplerSound and BufferedSamplerVoice.  rate is a double: it is *)
(* kept in units of 1 / RateDen.  tailOff is a double in [0, 1]: it is     *)
(* kept in units of 1 / TailDen.  level is kept in millionths, velocity in *)
(* thousandths.                                                            *)

RateDen == 65536
TailDen == 1000000000
TailFloor == 5000000                       \* 0.005
VelocityGain == 150                        \* 0.15: millionths of level per thousandth

BufferedSamplerSound(buffer, rootNote) == [sampleBuffer |-> buffer, rootNote |-> rootNote]

\* a voice as constructed; sampleBuffer is 0 (nullptr) or the index of the sound
\* whose buffer it points to; note is juce's currentlyPlayingNote, -1 when free
BufferedSamplerVoice ==
    [level |-> 0, tailOff |-> 0, rootNote |-> 60, sourceSamplePosition |-> 0,
     sampleBuffer |-> 0, rate |-> RateDen, note |-> -1]

\* 2^(i / 12) in units of 1 / RateDen, i = 0..11
SemitoneRatio == <<65536, 69433, 73562, 77936, 82570, 87480, 92682, 98193, 104032,
                   110218, 116772, 123715>>

\* std::pow(2.0, semitones / 12) with the quotient taken in int arithmetic
PowWholeOctaves(semitones) ==
    LET q == IF semitones >= 0 THEN semitones \div 12 ELSE 0 - ((0 - semitones) \div 12)
    IN  IF q >= 0 THEN RateDen * (2 ^ q) ELSE RateDen \div (2 ^ (0 - q))

\* std::pow(2.0, semitones / 12.0)
PowTwelfth(semitones) ==
    LET q == semitones \div 12
        i == semitones % 12
    IN  IF q >= 0 THEN SemitoneRatio[i + 1] * (2 ^ q)
        ELSE SemitoneRatio[i + 1] \div (2 ^ (0 - q))

\* startNote on a BufferedSamplerSound; juce sets currentlyPlayingNote before it
StartNote(v, midiNoteNumber, velocity, soundIndex, sound) ==
    [v EXCEPT !.rootNote = sound.rootNote,
              !.rate = PowTwelfth(midiNoteNumber - sound.rootNote),
              !.sampleBuffer = soundIndex,
              !.sourceSamplePosition = 0,
              !.level = velocity * VelocityGain,
              !.tailOff = 0,
              !.note = midiNoteNumber]

\* clearCurrentNote()
ClearCurrentNote(v) == [v EXCEPT !.note = -1]

StopNote(v, allowTailOff) ==
    IF allowTailOff
    THEN IF v.tailOff = 0 THEN [v EXCEPT !.tailOff = TailDen] ELSE v
    ELSE [ClearCurrentNote(v) EXCEPT !.level = 0]

\* a faulty decay, by 0.98
TailDecayFast(tailOff) == tailOff - tailOff \div 50

\* tailOff *= 0.99.  renderNextBlock runs on a freed voice too, so a tail that
\* has ended keeps shrinking by one step per block; it stays positive and at
\* most TailFloor, which is all the code reads of it, and is kept as it is.
TailDecay(tailOff) ==
    IF tailOff <= TailFloor THEN tailOff ELSE tailOff - tailOff \div 100

\* sourceSamplePosition += rate, on the int field: the sum is computed as a
\* double and converted back to int, which drops the fraction
AdvancePosition(sourceSamplePosition, rate) ==
    (sourceSamplePosition * RateDen + rate) \div RateDen

\* One pass of the while loop of renderNextBlock.  The result is the voice
\* afterwards, whether the loop was left by break, and what was added to the
\* output sample, if one was written:
\* (inL[src] * (1 - alpha) + inL[next] * alpha) * level * tail, with alpha in units
\* of 1 / RateDen and tail in units of 1 / TailDen.
RenderSample(v, bufferSize) ==
    LET pos == v.sourceSamplePosition
    IN  IF pos >= bufferSize
        THEN [voice |-> ClearCurrentNote(v), added |-> <<>>, broke |-> TRUE]
        ELSE
          LET alpha == (v.sourceSamplePosition - pos) * RateDen
              nextPos == IF pos + 1 < bufferSize THEN pos + 1 ELSE pos
              tail == IF v.tailOff > 0 THEN v.tailOff ELSE TailDen
              t1 == IF v.tailOff > 0 THEN TailDecay(v.tailOff) ELSE v.tailOff
              sample == [src |-> pos, next |-> nextPos, alpha |-> alpha,
                         level |-> v.level, tail |-> tail]
          IN  IF v.tailOff > 0 /\ t1 <= TailFloor
              THEN [voice |-> ClearCurrentNote([v EXCEPT !.tailOff = t1]),
                    added |-> <<>>, broke |-> TRUE]
              ELSE [voice |-> [v EXCEPT !.tailOff = t1,
                                        !.sourceSamplePosition =
                                            AdvancePosition(pos, v.rate)],
                    added |-> <<sample>>, broke |-> FALSE]

RECURSIVE RenderLoop(_, _, _)
\* numSamples passes of the loop, unless one of them breaks: the first half of
\* the passes, then the rest
RenderLoop(v, bufferSize, numSamples) ==
    IF numSamples <= 0 THEN [voice |-> v, added |-> <<>>, broke |-> FALSE]
    ELSE IF numSamples = 1 THEN RenderSample(v, bufferSize)
    ELSE LET first == RenderLoop(v, bufferSize, numSamples \div 2)
         IN  IF first.broke THEN first
             ELSE LET rest == RenderLoop(first.voice, bufferSize,
                                         numSamples - numSamples \div 2)
                  IN  [voice |-> rest.voice, added |-> first.added \o rest.added,
                       broke |-> rest.broke]

\* renderNextBlock(outputBuffer, startSample, numSamples)
RenderNextBlock(v, snds, numSamples) ==
    IF v.sampleBuffer = 0 THEN [voice |-> v, added |-> <<>>]
    ELSE LET bufferSize == NumSamples(snds[v.sampleBuffer].sampleBuffer)
         IN  IF bufferSize <= 0 THEN [voice |-> v, added |-> <<>>]
             ELSE LET r == RenderLoop(v, bufferSize, numSamples)
                  IN  [voice |-> r.voice, added |-> r.added]

-----------------------------------------------------------------------------
(* BufferedRecorderSamplerProcessor *)

\* juce::roundToInt(num / den), den > 0: to nearest, ties to even
RoundToInt(num, den) ==
    LET q == num \div den
        r == num % den
    IN  IF 2 * r < den THEN q
        ELSE IF 2 * r > den THEN q + 1
        ELSE IF q % 2 = 0 THEN q ELSE q + 1

\* roundToInt(position * totalSamples)
SampleOffset(position, totalSamples) == RoundToInt(position * totalSamples, PosDen)

\* getSample(channel, index); outside the buffer the read is out of bounds and
\* the value indeterminate
SampleAt(buf, c, index) ==
    IF index >= 0 /\ index < NumSamples(buf) THEN buf[c][index + 1] ELSE Uninit

\* a faulty copy, one sample late
SubBufferLate(buf, start, len) ==
    [c \in 1..Len(buf) |-> [i \in 1..len |-> SampleAt(buf, c, start + i)]]

\* copyFrom(channel, 0, buf, channel, start, len) into a new buffer of len samples
SubBuffer(buf, start, len) ==
    [c \in 1..Len(buf) |-> [i \in 1..len |-> SampleAt(buf, c, start + i - 1)]]

\* a faulty entry that takes the whole ring whatever the preset
EnterTrimModeWhole(seconds) ==
    /\ state' = "Trimming"
    /\ trimmedBuffer' = CbCopyTo(circularBuffer,
                                 ClearBuffer(NumChannels, circularBuffer.size),
                                 0, circularBuffer.size)
    /\ startPosition' = 0
    /\ endPosition' = PosDen
    /\ noteHistogram' = <<>>

\* a faulty entry that keeps the trim positions and the histogram
EnterTrimModeStale(seconds) ==
    LET totalSamples == RoundToInt(seconds * sampleRate, 1)
    IN  /\ state' = "Trimming"
        /\ trimmedBuffer' = CbCopyTo(circularBuffer,
                                     ClearBuffer(NumChannels, totalSamples),
                                     0, totalSamples)
        /\ UNCHANGED <<startPosition, endPosition, noteHistogram>>

\* enterTrimMode, entered with bufferDuration = seconds
EnterTrimMode(seconds) ==
    LET totalSamples == RoundToInt(seconds * sampleRate, 1)
        startSample == 0
        endSample == totalSamples
    IN  /\ state' = "Trimming"
        /\ trimmedBuffer' = CbCopyTo(circularBuffer,
                                     ClearBuffer(NumChannels, endSample - startSample),
                                     startSample, endSample)
        /\ startPosition' = 0
        /\ endPosition' = PosDen
        /\ noteHistogram' = <<>>

\* the frame of chunk number chunk (from 0) of the window starting at startSample
ChunkData(buf, startSample, chunk) ==
    [i \in 1..ChunkSize |-> SampleAt(buf, 1, startSample + chunk * ChunkSize + i - 1)]

\* The notes detectPitch may get for a frame (midiNoteFromFrequency of
\* PitchDetector::detectPitch); for indeterminate samples, no pitch or some note.
ChunkNotes(pd, frame) ==
    IF IndeterminateFrame(frame, pd.yinSize) THEN {-1, GarbageNote}
    ELSE {MidiNoteFromFrequency(f) : f \in YinDetectPitch(pd, frame)}

\* The note taken for a frame.  Every frame of one pass whose estimate is not
\* determined resolves the same way: the lowest (pick = 1) or the highest
\* (pick = 2) of the notes it may give.
ChunkNote(pd, frame, pick) ==
    LET notes == ChunkNotes(pd, frame)
    IN  IF pick = 1 THEN CHOOSE n \in notes : \A k \in notes : n <= k
        ELSE CHOOSE n \in notes : \A k \in notes : n >= k

\* the histogram after the chunk loop of detectPitch
HistogramAfter(hist, buf, pd, startSample, numChunks, pick) ==
    LET note(c) == ChunkNote(pd, ChunkData(buf, startSample, c), pick)
        noteOf == [c \in 0..(numChunks - 1) |-> note(c)]
        valid == {c \in 0..(numChunks - 1) : noteOf[c] >= 0 /\ noteOf[c] < 128}
        seen == {noteOf[c] : c \in valid}
    IN  [k \in (DOMAIN hist) \cup seen |->
            (IF k \in DOMAIN hist THEN hist[k] ELSE 0)
            + Cardinality({c \in valid : noteOf[c] = k})]

RECURSIVE SumOver(_, _)
SumOver(f, keys) ==
    IF keys = {} THEN 0
    ELSE LET k == CHOOSE x \in keys : TRUE IN f[k] + SumOver(f, keys \ {k})

\* the number of chunks counted in the histogram
HistogramTotal(hist) == SumOver(hist, DOMAIN hist)

\* one valid chunk result counted in the histogram
CountNote(hist, midiNote) ==
    IF midiNote >= 0 /\ midiNote < 128
    THEN IF midiNote \notin DOMAIN hist THEN hist @@ (midiNote :> 1)
         ELSE [hist EXCEPT ![midiNote] = @ + 1]
    ELSE hist

\* a count that replaces the current maximum although it only equals it
ReachesMax(count, maxCount) == count >= maxCount

\* entry.second > maxCount
ExceedsMax(count, maxCount) == count > maxCount

\* the loop over the entries of the std::map, in ascending key order
RECURSIVE ScanHistogram(_, _, _, _)
ScanHistogram(hist, keys, maxCount, note) ==
    IF keys = {} THEN note
    ELSE LET k == CHOOSE x \in keys : \A y \in keys : x <= y
         IN  IF ExceedsMax(hist[k], maxCount)
             THEN ScanHistogram(hist, keys \ {k}, hist[k], k)
             ELSE ScanHistogram(hist, keys \ {k}, maxCount, note)

\* the scan for the most common note: maxCount starts at 0 and the member
\* keeps its value if no entry exceeds it
MostCommonAfter(hist, current) == ScanHistogram(hist, DOMAIN hist, 0, current)

\* a faulty analysis that also takes the remainder as a chunk
DetectPitchWithRemainder(hist, current, buf, pd, startPos, endPos, pick) ==
    IF NumSamples(buf) = 0 THEN [histogram |-> hist, note |-> current]
    ELSE LET totalSamples == NumSamples(buf)
             startSample == SampleOffset(startPos, totalSamples)
             endSample == SampleOffset(endPos, totalSamples)
             lengthInSamples == endSample - startSample
             numChunks == (lengthInSamples + ChunkSize - 1) \div ChunkSize
             h == HistogramAfter(hist, buf, pd, startSample, numChunks, pick)
         IN  [histogram |-> h, note |-> MostCommonAfter(h, current)]

\* detectPitch: the histogram and the most common note after the call
DetectPitch(hist, current, buf, pd, startPos, endPos, pick) ==
    IF NumSamples(buf) = 0 THEN [histogram |-> hist, note |-> current]
    ELSE LET totalSamples == NumSamples(buf)
             startSample == SampleOffset(startPos, totalSamples)
             endSample == SampleOffset(endPos, totalSamples)
             lengthInSamples == endSample - startSample
             numChunks == lengthInSamples \div ChunkSize
             h == HistogramAfter(hist, buf, pd, startSample, numChunks, pick)
         IN  [histogram |-> h, note |-> MostCommonAfter(h, current)]

\* previewTrimmedSample
PreviewTrimmedSample(pick) ==
    LET totalSamples == NumSamples(trimmedBuffer)
        startSample == SampleOffset(startPosition, totalSamples)
        endSample == SampleOffset(endPosition, totalSamples)
        d == DetectPitch(noteHistogram, mostCommonNote, trimmedBuffer, pitchDetector,
                         startPosition, endPosition, pick)
    IN  /\ isPreviewActive' = TRUE
        /\ previewPosition' = startSample
        /\ previewWindow' = <<startSample, endSample>>
        /\ noteHistogram' = d.histogram
        /\ mostCommonNote' = d.note

\* enterSamplerMode
EnterSamplerMode ==
    LET totalSamples == NumSamples(trimmedBuffer)
        startSample == SampleOffset(startPosition, totalSamples)
        endSample == SampleOffset(endPosition, totalSamples)
        lengthInSamples == endSample - startSample
        finalBuffer == SubBuffer(trimmedBuffer, startSample, lengthInSamples)
    IN  /\ sounds' = <<BufferedSamplerSound(finalBuffer, mostCommonNote)>>
        /\ state' = "Sampling"

-----------------------------------------------------------------------------
(* juce::Synthesiser, as the processor uses it: note-on, note-off, render *)

FreeVoices(vs) == {i \in 1..Len(vs) : vs[i].note < 0}

\* the voice a note-on takes: the first free one, else the first one is stolen
VoiceFor(vs) ==
    IF FreeVoices(vs) = {} THEN 1
    ELSE CHOOSE i \in FreeVoices(vs) : \A j \in FreeVoices(vs) : i <= j

\* noteOn: voices already playing the note are released with a tail, then a voice
\* is started on the sound; a stolen voice is first stopped without a tail
SynthNoteOn(vs, snds, midiNoteNumber, velocity) ==
    IF Len(snds) = 0 THEN vs
    ELSE LET released == [i \in 1..Len(vs) |->
                             IF vs[i].note = midiNoteNumber
                             THEN StopNote(vs[i], TRUE) ELSE vs[i]]
             t == VoiceFor(released)
             taken == IF released[t].note >= 0 THEN StopNote(released[t], FALSE)
                      ELSE released[t]
         IN  [released EXCEPT
                 ![t] = StartNote(taken, midiNoteNumber, velocity, 1, snds[1])]

\* noteOff from a MIDI message: allowTailOff is true
SynthNoteOff(vs, midiNoteNumber) ==
    [i \in 1..Len(vs) |->
        IF vs[i].note = midiNoteNumber THEN StopNote(vs[i], TRUE) ELSE vs[i]]

\* the MIDI message at the start of a block
HandleMidi(vs, snds, midi) ==
    IF midi.type = "on" THEN SynthNoteOn(vs, snds, midi.note, midi.velocity)
    ELSE IF midi.type = "off" THEN SynthNoteOff(vs, midi.note)
    ELSE vs

\* renderVoices: every voice renders the block
SynthRender(vs, snds, numSamples) ==
    [i \in 1..Len(vs) |-> RenderNextBlock(vs[i], snds, numSamples)]

MidiEvents ==
    {[type |-> "none"]}
    \cup {[type |-> "on", note |-> n, velocity |-> v] : n \in SessionNotes,
                                                          v \in Velocities}
    \cup {[type |-> "off", note |-> n] : n \in SessionNotes}

-----------------------------------------------------------------------------
(* The session: the processor after prepareToPlay, its editor, the host's  *)
(* processing ticks and the user's clicks and slider moves.                *)

\* the input block of a tick: a period-2 signal or silence; the right channel is
\* twice the left
\* one cycle of tone "B": the alternation of tone "A" with a spike every
\* eighth sample, which moves the interpolated lag and so the note
SpikeShape == <<1, -1, 1, -1, 1, -1, 5, 0>>

Wave(tone, k) ==
    IF tone = "A" THEN (IF k % 2 = 0 THEN 1 ELSE -1)
    ELSE IF tone = "B" THEN SpikeShape[(k % Len(SpikeShape)) + 1]
    ELSE 0

ToneBlock(tone, n) == [c \in Channels |-> [i \in 1..n |-> c * Wave(tone, i - 1)]]

\* The host's block after processBlock, as a record: the state the call ran in,
\* whether the incoming samples are still in it, the range of trimmedBuffer
\* added to it, and the voices that added samples to it.
NoBlock == [during |-> "none", live |-> FALSE, previewFrom |-> 0, previewLen |-> 0,
            voiced |-> {}]

\* a faulty clear that leaves the block as it came
NotCleared(block) == block

\* buffer.clear(): the incoming samples are gone
Cleared(block) == [block EXCEPT !.live = FALSE]

\* The tones a tick may carry.  Outside Recording the block reaches no variable
\* but the pass-through flag of out, so one tone stands for all.
TonesHeard(st) == IF st = "Recording" THEN Tones ELSE {"S"}

\* a faulty editor that never hides the duration buttons
UpdateControlsVisibilityLax(st) ==
    [duration |-> TRUE, trim |-> st = "Trimming", info |-> st = "Sampling"]

\* updateControlsVisibility
UpdateControlsVisibility(st) ==
    [duration |-> st = "Recording", trim |-> st = "Trimming", info |-> st = "Sampling"]

Init ==
    /\ state = "Recording"
    /\ circularBuffer = CircularAudioBuffer(NumChannels, RingSize)
    /\ trimmedBuffer = NewBuffer(NumChannels, RingSize)
    /\ bufferDuration = 60
    /\ startPosition = 0
    /\ endPosition = PosDen
    /\ noteHistogram = <<>>
    /\ mostCommonNote = 60
    /\ isPreviewActive = FALSE
    /\ previewPosition = 0
    /\ sampleRate \in SampleRates
    /\ pitchDetector = PitchDetector(sampleRate, HostBlock)
    /\ sounds = <<>>
    /\ voices = [i \in 1..NumVoices |-> BufferedSamplerVoice]
    /\ shown = UpdateControlsVisibility("Recording")
    /\ out = NoBlock
    /\ previewWindow = <<0, 0>>
    /\ stream = [c \in Channels |-> <<>>]
    /\ probe = [op |-> "none"]

\* the number of samples written to the ring so far
Written == Len(stream[1])

\* a faulty condition that keeps recording while the input is passed through
RecordsOrTrims(st) == st = "Recording" \/ st = "Trimming"

\* state == PluginState::Recording, the condition of circularBuffer.write
Records(st) == st = "Recording"

\* processBlock on a block of BlockLen samples of the tone, with one MIDI message
ProcessBlock(tone, midi) ==
    LET buffer == ToneBlock(tone, BlockLen)
        numSamples == BlockLen
        total == NumSamples(trimmedBuffer)
        samplesToCopy == Min(numSamples, total - previewPosition)
        rendered == SynthRender(HandleMidi(voices, sounds, midi), sounds, numSamples)
    IN  /\ IF Records(state)
           THEN /\ Written + numSamples <= MaxRecTicks * BlockLen
                /\ circularBuffer' = CbWrite(circularBuffer, buffer)
                /\ stream' = [c \in Channels |-> stream[c] \o buffer[c]]
           ELSE UNCHANGED <<circularBuffer, stream>>
        /\ IF state = "Recording" \/ state = "Trimming"
           THEN IF state = "Trimming" /\ isPreviewActive /\ samplesToCopy > 0
                THEN /\ previewPosition' =
                            IF previewPosition + samplesToCopy >= total THEN 0
                            ELSE previewPosition + samplesToCopy
                     /\ out' = [during |-> state, live |-> TRUE,
                                previewFrom |-> previewPosition,
                                previewLen |-> samplesToCopy, voiced |-> {}]
                     /\ UNCHANGED voices
                ELSE /\ out' = [during |-> state, live |-> TRUE, previewFrom |-> 0,
                                previewLen |-> 0, voiced |-> {}]
                     /\ UNCHANGED <<previewPosition, voices>>
           ELSE /\ voices' = [i \in 1..Len(voices) |-> rendered[i].voice]
                /\ out' = [Cleared([during |-> state, live |-> TRUE, previewFrom |-> 0,
                                    previewLen |-> 0, voiced |-> {}])
                           EXCEPT !.voiced = {i \in 1..Len(voices) :
                                                 rendered[i].added # <<>>}]
                /\ UNCHANGED previewPosition
        /\ UNCHANGED <<probe, state, trimmedBuffer, bufferDuration, startPosition, endPosition,
                       noteHistogram, mostCommonNote, isPreviewActive, sampleRate,
                       pitchDetector, sounds, shown, previewWindow>>

Tick ==
    \E tone \in TonesHeard(state), midi \in MidiEvents :
        /\ midi.type = "on" =>
              (state = "Sampling" => VoiceFor(voices) <= MaxVoicesUsed)
        /\ ProcessBlock(tone, midi)

\* buttonClicked on one of the duration buttons
ClickDuration ==
    \E seconds \in Durations :
        /\ shown.duration
        /\ bufferDuration' = seconds
        /\ EnterTrimMode(seconds)
        /\ shown' = UpdateControlsVisibility(state')
        /\ UNCHANGED <<probe, circularBuffer, mostCommonNote, isPreviewActive, previewPosition,
                       sampleRate, pitchDetector, sounds, voices, out, previewWindow,
                       stream>>

\* buttonClicked on the preview button
ClickPreview ==
    \E pick \in {1, 2} :
        /\ shown.trim
        /\ HistogramTotal(noteHistogram) <= MaxAnalysed
        /\ PreviewTrimmedSample(pick)
        /\ shown' = UpdateControlsVisibility(state)
        /\ UNCHANGED <<probe, state, circularBuffer, trimmedBuffer, bufferDuration,
                       startPosition, endPosition, sampleRate, pitchDetector, sounds,
                       voices, out, stream>>

\* buttonClicked on the done button
ClickDone ==
    /\ shown.trim
    /\ EnterSamplerMode
    /\ shown' = UpdateControlsVisibility(state')
    /\ UNCHANGED <<probe, circularBuffer, trimmedBuffer, bufferDuration, startPosition,
                   endPosition, noteHistogram, mostCommonNote, isPreviewActive,
                   previewPosition, sampleRate, pitchDetector, voices, out,
                   previewWindow, stream>>

\* a faulty start edit that lets the start meet the end
StartSliderChangedLax(value, startPos, endPos) ==
    IF value > endPos THEN [start |-> endPos - EpsMilli, end |-> endPos]
    ELSE [start |-> value, end |-> endPos]

\* the trim positions after sliderValueChanged on the start slider at value
StartSliderChanged(value, startPos, endPos) ==
    IF value >= endPos THEN [start |-> endPos - EpsMilli, end |-> endPos]
    ELSE [start |-> value, end |-> endPos]

\* the trim positions after sliderValueChanged on the end slider at value
EndSliderChanged(value, startPos, endPos) ==
    IF value <= startPos THEN [start |-> startPos, end |-> startPos + EpsMilli]
    ELSE [start |-> startPos, end |-> value]

\* sliderValueChanged(slider) with the slider at value
SliderValueChanged(which, value, startPos, endPos) ==
    IF which = "start" THEN StartSliderChanged(value, startPos, endPos)
    ELSE EndSliderChanged(value, startPos, endPos)

MoveSlider ==
    \E which \in {"start", "end"}, value \in SliderValues :
        /\ shown.trim
        /\ LET r == SliderValueChanged(which, value, startPosition, endPosition)
           IN  /\ startPosition' = r.start
               /\ endPosition' = r.end
        /\ UNCHANGED <<probe, state, circularBuffer, trimmedBuffer, bufferDuration,
                       noteHistogram, mostCommonNote, isPreviewActive, previewPosition,
                       sampleRate, pitchDetector, sounds, voices, shown, out,
                       previewWindow, stream>>

Next == Tick \/ ClickDuration \/ ClickPreview \/ ClickDone \/ MoveSlider

Spec == Init /\ [][Next]_vars

-----------------------------------------------------------------------------
(* The ring on its own: a CircularAudioBuffer(2, SmallSize) driven by write *)
(* and copyTo calls.  Written samples are numbered, so every sample of the *)
(* stream is different from every other.                                   *)


\* the block of n samples that follows the ones already written
NumberedBlock(n) == [c \in Channels |-> [i \in 1..n |-> 1000 * c + Written + i]]

\* the session's variables, unused by the ring on its own
IdleSession ==
    /\ state = "Recording"
    /\ trimmedBuffer = <<>>
    /\ bufferDuration = 60
    /\ startPosition = 0
    /\ endPosition = PosDen
    /\ noteHistogram = <<>>
    /\ mostCommonNote = 60
    /\ isPreviewActive = FALSE
    /\ previewPosition = 0
    /\ sampleRate = CapRate
    /\ pitchDetector = PitchDetector(CapRate, HostBlock)
    /\ previewWindow = <<0, 0>>
    /\ sounds = <<>>
    /\ voices = <<>>
    /\ shown = [duration |-> FALSE, trim |-> FALSE, info |-> FALSE]
    /\ out = NoBlock

InitRing ==
    /\ IdleSession
    /\ circularBuffer = CircularAudioBuffer(NumChannels, SmallSize)
    /\ stream = [c \in Channels |-> <<>>]
    /\ probe = [op |-> "none"]

RingWrite ==
    \E n \in 0..MaxBlock :
        /\ Written + n <= MaxRingWritten
        /\ LET src == NumberedBlock(n)
           IN  /\ circularBuffer' = CbWrite(circularBuffer, src)
               /\ stream' = [c \in Channels |-> stream[c] \o src[c]]
        /\ probe' = [op |-> "write", n |-> n]
        /\ UNCHANGED sessionVars

RingCopyTo ==
    \E destLen \in 0..SmallSize, s \in 0..SmallSize, e \in 0..SmallSize :
        /\ s <= e
        /\ probe' = [op |-> "copyTo", startSample |-> s, endSample |-> e,
                     dest |-> CbCopyTo(circularBuffer,
                                       ClearBuffer(NumChannels, destLen), s, e)]
        /\ UNCHANGED <<circularBuffer, sessionVars, stream>>

NextRing == RingWrite \/ RingCopyTo

SpecRing == InitRing /\ [][NextRing]_vars

\* the last n elements of a sequence
LastN(seq, n) == SubSeq(seq, Len(seq) - n + 1, Len(seq))

\* C1: for every write sequence and every n <= capacity with at least n samples
\* written, copying out the window of the n most recent samples (the window that
\* ends at offset size, [size - n, size)) gives, per channel, exactly the last n
\* samples written, oldest first.
C1_CopyReturnsMostRecent ==
    (/\ probe.op = "copyTo"
     /\ probe.endSample = circularBuffer.size
     /\ NumSamples(probe.dest) = probe.endSample - probe.startSample
     /\ Written >= NumSamples(probe.dest))
    => \A c \in Channels :
          probe.dest[c] = LastN(stream[c], NumSamples(probe.dest))

\* a copy of a window of 3 samples after the ring has wrapped with a block that
\* left the cursor in the middle of the storage
C1_Witness ==
    /\ probe.op = "copyTo"
    /\ probe.endSample = circularBuffer.size
    /\ probe.startSample = circularBuffer.size - 3
    /\ NumSamples(probe.dest) = 3
    /\ Written > circularBuffer.size
    /\ circularBuffer.writePos = 2

-----------------------------------------------------------------------------
(* The trim sliders on their own: the session in Trimming, after two silent *)
(* blocks were recorded and the 10 s button was clicked, with the sliders   *)
(* set to any of FineSliderValues and the done button clicked at any time. *)
(* probe holds the last call of the slider listener and the positions       *)
(* before it, and in w the values of the two slider widgets with the        *)
(* notifications they still owe the listener.                               *)

SilentRing ==
    CbWrite(CbWrite(CircularAudioBuffer(NumChannels, RingSize),
                    ToneBlock("S", BlockLen)), ToneBlock("S", BlockLen))

InitTrim ==
    /\ state = "Trimming"
    /\ circularBuffer = SilentRing
    /\ stream = [c \in Channels |-> [i \in 1..(2 * BlockLen) |-> 0]]
    /\ bufferDuration = 10
    /\ sampleRate = CapRate
    /\ trimmedBuffer = CbCopyTo(SilentRing, ClearBuffer(NumChannels, 10 * CapRate),
                                0, 10 * CapRate)
    /\ startPosition = 0
    /\ endPosition = PosDen
    /\ noteHistogram = <<>>
    /\ mostCommonNote = 60
    /\ isPreviewActive = FALSE
    /\ previewPosition = 0
    /\ pitchDetector = PitchDetector(CapRate, HostBlock)
    /\ sounds = <<>>
    /\ voices = [i \in 1..NumVoices |-> BufferedSamplerVoice]
    /\ shown = UpdateControlsVisibility("Trimming")
    /\ out = [during |-> "Recording", live |-> TRUE, previewFrom |-> 0,
              previewLen |-> 0, voiced |-> {}]
    /\ previewWindow = <<0, 0>>
    /\ probe = [op |-> "none",
                w |-> [value |-> [start |-> 0, end |-> PosDen], pending |-> {}]]

\* Slider::setValue(newValue) on a slider of range 0..1: the value is
\* constrained to the range and, if it differs from the slider's value, it is
\* stored and the listener is notified again, asynchronously.  w holds the
\* values of the two sliders and the set of sliders with a notification pending.
SliderSetValue(w, which, newValue) ==
    LET c == Max(0, Min(PosDen, newValue))
    IN  IF c = w.value[which] THEN w
        ELSE [value |-> [w.value EXCEPT ![which] = c],
              pending |-> w.pending \cup {which}]

\* whether sliderValueChanged on slider which at value moves the bound off
\* the other one and writes it back to the slider
Adjusts(which, value, startPos, endPos) ==
    IF which = "start" THEN value >= endPos ELSE value <= startPos

\* sliderValueChanged(slider) as a whole: the positions and the sliders after it
HandleSlider(which, w, startPos, endPos) ==
    LET value == w.value[which]
        r == SliderValueChanged(which, value, startPos, endPos)
        back == IF which = "start" THEN r.start ELSE r.end
    IN  [start |-> r.start, end |-> r.end,
         w |-> IF Adjusts(which, value, startPos, endPos)
               THEN SliderSetValue(w, which, back) ELSE w]

\* the user sets a slider to value: the slider stores it and calls the
\* listener synchronously, which cancels a notification still pending for it
TrimEdit ==
    \E which \in {"start", "end"}, value \in FineSliderValues :
        /\ shown.trim
        /\ value # probe.w.value[which]
        /\ LET w == [value |-> [probe.w.value EXCEPT ![which] = value],
                     pending |-> probe.w.pending \ {which}]
               r == HandleSlider(which, w, startPosition, endPosition)
           IN  /\ startPosition' = r.start
               /\ endPosition' = r.end
               /\ probe' = [op |-> "slider", which |-> which, value |-> value,
                            start |-> startPosition, end |-> endPosition,
                            w |-> r.w]
        /\ UNCHANGED <<state, circularBuffer, trimmedBuffer, bufferDuration,
                       noteHistogram, mostCommonNote, isPreviewActive, previewPosition,
                       sampleRate, pitchDetector, sounds, voices, shown, out,
                       previewWindow, stream>>

\* a pending notification of a slider is delivered: sliderValueChanged runs
\* with the value the slider holds now
TrimNotified ==
    \E which \in probe.w.pending :
        /\ LET w == [probe.w EXCEPT !.pending = @ \ {which}]
               r == HandleSlider(which, w, startPosition, endPosition)
           IN  /\ startPosition' = r.start
               /\ endPosition' = r.end
               /\ probe' = [op |-> "slider", which |-> which,
                            value |-> probe.w.value[which],
                            start |-> startPosition, end |-> endPosition,
                            w |-> r.w]
        /\ UNCHANGED <<state, circularBuffer, trimmedBuffer, bufferDuration,
                       noteHistogram, mostCommonNote, isPreviewActive, previewPosition,
                       sampleRate, pitchDetector, sounds, voices, shown, out,
                       previewWindow, stream>>

\* the done button, clicked after any edits
TrimCommit == ClickDone

NextTrim == TrimEdit \/ TrimNotified \/ TrimCommit

SpecTrim == InitTrim /\ [][NextTrim]_vars

\* C3: after any sequence of slider edits the start position is below the end
\* position; an edit that would break this leaves the edited bound 0.01 from
\* the other bound, any other edit stores the value, and the other bound is kept.
C3_StartBelowEnd ==
    /\ startPosition < endPosition
    /\ (probe.op = "slider" /\ probe.which = "start") =>
          /\ endPosition = probe.end
          /\ startPosition = IF probe.value >= probe.end THEN probe.end - EpsMilli
                             ELSE probe.value
    /\ (probe.op = "slider" /\ probe.which = "end") =>
          /\ startPosition = probe.start
          /\ endPosition = IF probe.value <= probe.start THEN probe.start + EpsMilli
                           ELSE probe.value

\* the start slider dragged onto the end position, after both bounds were edited
C3_Witness ==
    /\ probe.op = "slider" /\ probe.which = "start"
    /\ probe.value = probe.end
    /\ probe.end < PosDen /\ probe.start > 0
    /\ startPosition = endPosition - EpsMilli

-----------------------------------------------------------------------------
(* A voice on its own: the first voice of the synthesiser, with one sound  *)
(* loaded, driven by startNote, stopNote and renderNextBlock.  probe counts *)
(* the blocks and the samples (k) rendered since the note started and the  *)
(* samples rendered since it was stopped (t), and holds how it was stopped *)
(* and the last block's samples.                                           *)

InitVoice ==
    /\ state = "Sampling"
    /\ circularBuffer = CircularAudioBuffer(NumChannels, SmallSize)
    /\ stream = [c \in Channels |-> <<>>]
    /\ trimmedBuffer = <<>>
    /\ bufferDuration = 60
    /\ startPosition = 0
    /\ endPosition = PosDen
    /\ noteHistogram = <<>>
    /\ mostCommonNote = 60
    /\ isPreviewActive = FALSE
    /\ previewPosition = 0
    /\ sampleRate = CapRate
    /\ pitchDetector = PitchDetector(CapRate, HostBlock)
    /\ \E len \in AssetLengths :
          sounds = <<BufferedSamplerSound(ToneBlock("A", len), 60)>>
    /\ voices = [i \in 1..NumVoices |-> BufferedSamplerVoice]
    /\ shown = UpdateControlsVisibility("Sampling")
    /\ out = NoBlock
    /\ previewWindow = <<0, 0>>
    /\ probe = [blocks |-> 0, k |-> 0, t |-> 0, stop |-> "none", last |-> <<>>]

voiceIdle == <<state, circularBuffer, stream, trimmedBuffer, bufferDuration,
               startPosition, endPosition, noteHistogram, mostCommonNote,
               isPreviewActive, previewPosition, sampleRate, pitchDetector, sounds,
               shown, out, previewWindow>>

VoiceStart ==
    \E note \in VoiceNotes, velocity \in Velocities :
        /\ voices' = [voices EXCEPT ![1] = StartNote(@, note, velocity, 1, sounds[1])]
        /\ probe' = [blocks |-> 0, k |-> 0, t |-> 0, stop |-> "none", last |-> <<>>]
        /\ UNCHANGED voiceIdle

VoiceStop ==
    \E allowTailOff \in BOOLEAN :
        /\ voices[1].note >= 0
        /\ voices' = [voices EXCEPT ![1] = StopNote(@, allowTailOff)]
        /\ probe' = IF ~allowTailOff
                    THEN [probe EXCEPT !.stop = "hard", !.t = 0, !.last = <<>>]
                    ELSE IF voices[1].tailOff = 0
                    THEN [probe EXCEPT !.stop = "tail", !.t = 0, !.last = <<>>]
                    ELSE probe
        /\ UNCHANGED voiceIdle

VoiceRender ==
    \E numSamples \in BlockSizes :
        /\ probe.blocks < MaxBlocks
        /\ LET r == RenderNextBlock(voices[1], sounds, numSamples)
           IN  /\ voices' = [voices EXCEPT ![1] = r.voice]
               /\ probe' = [probe EXCEPT
                               !.blocks = @ + 1,
                               !.k = @ + Len(r.added),
                               !.t = IF probe.stop = "none" THEN @
                                     ELSE @ + Len(r.added),
                               !.last = r.added]
        /\ UNCHANGED voiceIdle

NextVoice == VoiceStart \/ VoiceStop \/ VoiceRender

SpecVoice == InitVoice /\ [][NextVoice]_vars

\* C7: while a note plays at rate r, after k rendered samples the read position
\* is k * r; stated for its whole part, the index the next sample is read from.
C7_PositionIsCountTimesRate ==
    (voices[1].note >= 0 /\ probe.stop = "none")
    => voices[1].sourceSamplePosition = (probe.k * voices[1].rate) \div RateDen

\* the factor 0.99 applied once, written apart from the voice's code
C8_Step(t) == t - t \div 100

RECURSIVE C8_TailAfter(_, _)
\* the factor after k more samples, from t; once at or under 0.005 it is final
C8_TailAfter(t, k) ==
    IF k = 0 THEN t
    ELSE IF k = 1 THEN C8_Step(t)
    ELSE LET half == C8_TailAfter(t, k \div 2)
         IN  IF half <= TailFloor THEN half ELSE C8_TailAfter(half, k - k \div 2)

\* C8: after stopNote with a tail on a playing voice the factor is 1.0 times
\* 0.99 for each sample rendered since, and above 0.005 while the voice plays;
\* a voice freed by the tail (before the end of the sound) rendered exactly the
\* samples for which the factor stayed above 0.005; after stopNote without a
\* tail the voice is free at once and what it renders has level 0.
C8_TailOff ==
    LET v == voices[1]
        bufferSize == NumSamples(sounds[1].sampleBuffer)
    IN  /\ (probe.stop = "tail" /\ v.note >= 0) =>
              /\ v.tailOff = C8_TailAfter(TailDen, probe.t)
              /\ v.tailOff > TailFloor
        /\ (probe.stop = "tail" /\ v.note < 0 /\ v.sourceSamplePosition < bufferSize) =>
              /\ C8_TailAfter(TailDen, probe.t) > TailFloor
              /\ C8_TailAfter(TailDen, probe.t + 1) <= TailFloor
        /\ probe.stop = "hard" =>
              /\ v.note < 0
              /\ v.level = 0
              /\ \A i \in 1..Len(probe.last) : probe.last[i].level = 0

\* a voice stuck before the end of the sound, freed by the tail after 527 samples
C8_Witness ==
    /\ probe.stop = "tail"
    /\ voices[1].note < 0
    /\ voices[1].sourceSamplePosition < NumSamples(sounds[1].sampleBuffer)
    /\ probe.t = 527

-----------------------------------------------------------------------------
(* Properties of the session *)

\* the length enterTrimMode gives trimmedBuffer
TrimLength == RoundToInt(bufferDuration * sampleRate, 1)

\* the trim window in samples of trimmedBuffer
WindowStart == SampleOffset(startPosition, NumSamples(trimmedBuffer))
WindowEnd == SampleOffset(endPosition, NumSamples(trimmedBuffer))

\* C2: in Trimming, when the recording had filled the ring (so that every sample
\* the copy reads was written), trimmedBuffer holds the most recent
\* bufferDuration seconds written to the ring, for each of the three durations.
C2_TrimmedIsMostRecent ==
    (state = "Trimming" /\ Written >= circularBuffer.size)
    => \A c \in Channels : trimmedBuffer[c] = LastN(stream[c], TrimLength)

\* C4: the state is one of Recording, Trimming, Sampling and starts as
\* Recording; it changes only from Recording to Trimming by a click on a duration
\* button and from Trimming to Sampling by a click on the done button.
C4_StateMachine ==
    /\ state = "Recording"
    /\ [](state \in {"Recording", "Trimming", "Sampling"})
    /\ [][state' # state =>
            \/ state = "Recording" /\ state' = "Trimming" /\ ClickDuration
            \/ state = "Trimming" /\ state' = "Sampling" /\ ClickDone]_vars

C4_Witness == state = "Sampling" /\ out.during = "Sampling" /\ shown.info

WindowAnalysis(pick) ==
    DetectPitch(<<>>, mostCommonNote, trimmedBuffer, pitchDetector,
                startPosition, endPosition, pick)

\* C6: after a commit with no preview before it, when the pitch analysis of the
\* committed window is determined and finds a note, the loaded sound's root note
\* is that note.
C6_RootIsAnalysedNote ==
    (/\ state = "Sampling"
     /\ ~isPreviewActive
     /\ WindowAnalysis(1) = WindowAnalysis(2)
     /\ DOMAIN WindowAnalysis(1).histogram # {})
    => sounds[1].rootNote = WindowAnalysis(1).note

\* C9: while the preview plays, the preview cursor is inside the trim window,
\* taken either as it was when the preview started or as it is now.
C9_CursorInWindow ==
    (state = "Trimming" /\ isPreviewActive)
    => \/ previewWindow[1] <= previewPosition /\ previewPosition < previewWindow[2]
       \/ WindowStart <= previewPosition /\ previewPosition < WindowEnd

\* C10: the block left by a tick in Sampling holds no incoming samples and no
\* preview samples, only what voices started on the sound added, also when the
\* preview was active at the commit.
C10_SamplingOutputOnlyVoices ==
    out.during = "Sampling" =>
        /\ ~out.live
        /\ out.previewLen = 0
        /\ \A i \in out.voiced : voices[i].sampleBuffer # 0

C10_Witness ==
    /\ out.during = "Sampling"
    /\ isPreviewActive
    /\ previewPosition > 0
    /\ out.voiced # {}

(***************************************************************************)
(* One voice started on assets of every root note.                         *)
(***************************************************************************)
InitNote ==
    /\ state = "Sampling"
    /\ circularBuffer = CircularAudioBuffer(NumChannels, SmallSize)
    /\ stream = [c \in Channels |-> <<>>]
    /\ trimmedBuffer = <<>>
    /\ bufferDuration = 60
    /\ startPosition = 0
    /\ endPosition = PosDen
    /\ noteHistogram = <<>>
    /\ isPreviewActive = FALSE
    /\ previewPosition = 0
    /\ sampleRate = CapRate
    /\ pitchDetector = PitchDetector(CapRate, HostBlock)
    /\ \E root \in MidiNotes :
          /\ mostCommonNote = root
          /\ sounds = <<BufferedSamplerSound(ToneBlock("A", SmallSize), root)>>
    /\ voices = [i \in 1..NumVoices |-> BufferedSamplerVoice]
    /\ shown = UpdateControlsVisibility("Sampling")
    /\ out = NoBlock
    /\ previewWindow = <<0, 0>>
    /\ probe = [op |-> "none"]

\* noteOn reaching the first voice
NoteStart ==
    \E note \in MidiNotes, velocity \in Velocities :
        /\ voices' = [voices EXCEPT ![1] = StartNote(@, note, velocity, 1, sounds[1])]
        /\ probe' = [op |-> "startNote"]
        /\ UNCHANGED voiceIdle

NextNote == NoteStart

SpecNote == InitNote /\ [][NextNote]_vars

\* C11: a started voice plays at 2^((midiNote - R)/12) for the root note R of
\* its asset: rate 1 at the root, 2 an octave above, 1/2 an octave below,
\* and strictly between those inside the octave, for every R in 0..127.
C11_RateIsSemitoneRatio ==
    \A i \in DOMAIN voices :
        LET v == voices[i]
            d == v.note - v.rootNote
        IN  (probe.op = "startNote" /\ v.note >= 0) =>
                /\ v.rootNote = sounds[1].rootNote
                /\ (d = 0) => v.rate = RateDen
                /\ (d = 12) => v.rate = 2 * RateDen
                /\ (d = -12) => 2 * v.rate = RateDen
                /\ (d > 0 /\ d < 12) => (v.rate > RateDen /\ v.rate < 2 * RateDen)
                /\ (d < 0 /\ d > -12) => (2 * v.rate > RateDen /\ v.rate < RateDen)
                /\ (d > 12) => v.rate > 2 * RateDen
                /\ (d < -12) => 2 * v.rate < RateDen

C11_Witness ==
    /\ probe.op = "startNote"
    /\ sounds[1].rootNote = 127
    /\ voices[1].note = 115
    /\ 2 * voices[1].rate = RateDen

(***************************************************************************)
(* The note histogram under analysis passes whose chunks yield any notes   *)
(* in any order.                                                           *)
(***************************************************************************)
RECURSIVE CountNotes(_, _)
CountNotes(hist, notes) ==
    IF notes = <<>> THEN hist
    ELSE CountNotes(CountNote(hist, Head(notes)), Tail(notes))

InitHist ==
    /\ IdleSession
    /\ circularBuffer = CircularAudioBuffer(NumChannels, SmallSize)
    /\ stream = [c \in Channels |-> <<>>]
    /\ probe = [op |-> "none"]

\* detectPitch over a window whose chunks give the notes of `notes`, in order
HistAnalyse ==
    \E n \in 1..MaxChunks :
        \E notes \in [1..n -> ChunkResults] :
            LET h == CountNotes(noteHistogram, notes)
            IN  /\ \A k \in DOMAIN h : h[k] <= MaxCount
                /\ noteHistogram' = h
                /\ mostCommonNote' = MostCommonAfter(h, mostCommonNote)
                /\ probe' = [op |-> "detectPitch", notes |-> notes,
                             before |-> mostCommonNote]
                /\ UNCHANGED <<state, circularBuffer, stream, trimmedBuffer,
                               bufferDuration, startPosition, endPosition,
                               isPreviewActive, previewPosition, sampleRate,
                               pitchDetector, sounds, voices, shown, out,
                               previewWindow>>

NextHist == HistAnalyse

SpecHist == InitHist /\ [][NextHist]_vars

\* C12: after an analysis pass the most common note is the lowest note among
\* those with the maximal count in the histogram, whatever order the counts
\* were accumulated in and whatever note was reported before.
C12_LowestMostFrequent ==
    (probe.op = "detectPitch" /\ DOMAIN noteHistogram # {}) =>
        /\ mostCommonNote \in DOMAIN noteHistogram
        /\ \A j \in DOMAIN noteHistogram :
              \/ noteHistogram[j] < noteHistogram[mostCommonNote]
              \/ (noteHistogram[j] = noteHistogram[mostCommonNote]
                    /\ j >= mostCommonNote)

\* the histogram {60:3, 64:3}, completed by a chunk of note 60 after note 64
\* had been the most common one
C12_Witness ==
    /\ probe.op = "detectPitch"
    /\ probe.before = 64
    /\ probe.notes[Len(probe.notes)] = 60
    /\ noteHistogram = (60 :> 3) @@ (64 :> 3)
    /\ mostCommonNote = 60

\* C13: in Trimming and after it the trimmed buffer holds
\* round(presetSeconds * sampleRate) samples for the preset selected at the
\* entry, and no edit, preview, commit or tick changes the preset or the length.
C13_TrimmedLength ==
    /\ [](state \in {"Trimming", "Sampling"} =>
            /\ bufferDuration \in Durations
            /\ NumSamples(trimmedBuffer) = RoundToInt(bufferDuration * sampleRate, 1))
    /\ [][state # "Recording" =>
            /\ bufferDuration' = bufferDuration
            /\ NumSamples(trimmedBuffer') = NumSamples(trimmedBuffer)]_vars

C13_Witness ==
    /\ state = "Sampling"
    /\ bufferDuration = 10
    /\ NumSamples(trimmedBuffer) = 10 * CapRate
    /\ NumSamples(trimmedBuffer) < circularBuffer.size
    /\ startPosition = 500 /\ endPosition = 510
    /\ isPreviewActive

\* C14: after any sequence of slider edits both trim positions are within
\* [0, 1] and the sample offsets taken from them are within the trimmed buffer.
C14_PositionsInRange ==
    /\ 0 <= startPosition /\ startPosition <= PosDen
    /\ 0 <= endPosition /\ endPosition <= PosDen
    /\ 0 <= WindowStart /\ WindowStart <= NumSamples(trimmedBuffer)
    /\ 0 <= WindowEnd /\ WindowEnd <= NumSamples(trimmedBuffer)

\* C15: a commit after any sequence of slider edits loads a sound of at least
\* one sample: round(end * N) - round(start * N) >= 1.
C15_CommittedLength ==
    state = "Sampling" =>
        /\ WindowEnd - WindowStart >= 1
        /\ NumSamples(sounds[1].sampleBuffer) >= 1

\* C16: when the analysis run by a preview of a window of at least one chunk,
\* all of it recorded samples, has found no note in any chunk, the most
\* common note reported is the no-note value, which the editor shows as "None".
C16_NoPitchIsReported ==
    (/\ state = "Trimming"
     /\ isPreviewActive
     /\ Written >= circularBuffer.size
     /\ previewWindow[2] - previewWindow[1] >= ChunkSize
     /\ noteHistogram = <<>>)
    => mostCommonNote < 0

-----------------------------------------------------------------------------
(* The pitch estimator on its own: PitchDetector::detectPitch applied to   *)
(* one frame of YinFrame samples, for detectors made with host blocks of a *)
(* quarter, a half and the whole of the frame length.  The frames are      *)
(* silence, pulse trains of every period and phase, and a sine of 16       *)
(* samples per cycle at every phase.  probe holds the frame and, after the *)
(* call, the set of frequencies the call can return.                       *)

\* round(3 sin(2 pi k / 16)), k = 0..15
SineShape == <<0, 1, 2, 3, 3, 3, 2, 1, 0, -1, -2, -3, -3, -3, -2, -1>>

SineFrame(phase) ==
    [i \in 1..YinFrame |-> SineShape[((i - 1 + phase) % Len(SineShape)) + 1]]

PulseFrame(period, phase) ==
    [i \in 1..YinFrame |-> IF (i - 1 + phase) % period = 0 THEN 1 ELSE 0]

SilentFrame == [i \in 1..YinFrame |-> 0]

Frames ==
    {SilentFrame}
    \cup {SineFrame(ph) : ph \in 0..(Len(SineShape) - 1)}
    \cup {PulseFrame(p, ph) : p \in 2..MaxPeriod, ph \in 0..3}

HostBlocks == {YinFrame \div 4, YinFrame \div 2, YinFrame}

InitYin ==
    /\ state = "Trimming"
    /\ circularBuffer = CircularAudioBuffer(NumChannels, SmallSize)
    /\ stream = [c \in Channels |-> <<>>]
    /\ trimmedBuffer = <<>>
    /\ bufferDuration = 60
    /\ startPosition = 0
    /\ endPosition = PosDen
    /\ noteHistogram = <<>>
    /\ mostCommonNote = 60
    /\ isPreviewActive = FALSE
    /\ previewPosition = 0
    /\ sampleRate = CapRate
    /\ \E samplesPerBlock \in HostBlocks :
          pitchDetector = PitchDetector(CapRate, samplesPerBlock)
    /\ sounds = <<>>
    /\ voices = <<>>
    /\ shown = UpdateControlsVisibility("Trimming")
    /\ out = NoBlock
    /\ previewWindow = <<0, 0>>
    /\ \E frame \in Frames : probe = [op |-> "frame", frame |-> frame]

\* pitchDetector->detectPitch(chunkData, chunkSize)
Estimate ==
    /\ probe.op = "frame"
    /\ probe' = [op |-> "estimate", frame |-> probe.frame,
                 result |-> YinDetectPitch(pitchDetector, probe.frame)]
    /\ UNCHANGED <<state, circularBuffer, stream, trimmedBuffer, bufferDuration,
                   startPosition, endPosition, noteHistogram, mostCommonNote,
                   isPreviewActive, previewPosition, sampleRate, pitchDetector,
                   sounds, voices, shown, out, previewWindow>>

NextYin == Estimate

SpecYin == InitYin /\ [][NextYin]_vars

\* the normalised difference values of lags 0..w of the frame, over the
\* estimator's window of w samples: one lag more than the estimator keeps
C17_Values(frame, w) ==
    YinNormalised([t \in 1..(w + 1) |-> SumSq(frame, w, t - 1, 0)], w + 1)

\* lag tau is under the threshold and lower than both neighbouring lags
C17_Candidate(frame, w, tau) ==
    LET y == C17_Values(frame, w)
    IN  /\ Less(y[tau + 1], Threshold)
        /\ Less(y[tau + 1], y[tau])
        /\ Less(y[tau + 1], y[tau + 2])

\* C17: the estimate is 0 whenever no lag from 2 up to the last lag scanned
\* has a normalised difference value under 0.1 that is lower than the values
\* of both neighbouring lags; so it is for a silent frame.
C17_NoCandidateNoPitch ==
    (/\ probe.op = "estimate"
     /\ \A tau \in 2..(pitchDetector.yinSize - 1) :
            ~C17_Candidate(probe.frame, pitchDetector.yinSize, tau))
    => probe.result = {NoPitch}

C19_CursorIsWrittenModSize ==
    /\ [](/\ 0 <= circularBuffer.writePos
          /\ circularBuffer.writePos < circularBuffer.size
          /\ circularBuffer.writePos = Written % circularBuffer.size)
    /\ [][probe'.op = "copyTo" => circularBuffer' = circularBuffer]_vars

\* the cursor after a block longer than the ring, following earlier writes
C19_Witness ==
    /\ probe.op = "write"
    /\ probe.n > circularBuffer.size
    /\ Written > probe.n
    /\ Written % circularBuffer.size # 0
    /\ circularBuffer.writePos = Written % circularBuffer.size

-----------------------------------------------------------------------------
(* The processor on its own: after a tone and then silence were recorded,  *)
(* a duration is selected again and again, so that Trimming is entered    *)
(* from Recording and from Trimming, after edits and previews.  probe      *)
(* holds the last call and, for an entry into Trimming, the state it was   *)
(* made from and whether the region had been edited and notes counted.     *)

RecordedRing ==
    CbWrite(CbWrite(CircularAudioBuffer(NumChannels, RingSize),
                    ToneBlock("A", BlockLen)), ToneBlock("S", BlockLen))

InitProc ==
    /\ IdleSession
    /\ circularBuffer = RecordedRing
    /\ stream = [c \in Channels |->
                    ToneBlock("A", BlockLen)[c] \o ToneBlock("S", BlockLen)[c]]
    /\ probe = [op |-> "none"]

\* setBufferDuration(seconds); enterTrimMode()
ProcEnterTrim ==
    \E seconds \in Durations :
        /\ bufferDuration' = seconds
        /\ EnterTrimMode(seconds)
        /\ shown' = UpdateControlsVisibility(state')
        /\ probe' = [op |-> "enterTrimMode",
                     edited |-> (startPosition > 0 /\ endPosition < PosDen),
                     counted |-> (noteHistogram # <<>>),
                     from |-> state]
        /\ UNCHANGED <<circularBuffer, mostCommonNote, isPreviewActive,
                       previewPosition, sampleRate, pitchDetector, sounds, voices,
                       out, previewWindow, stream>>

\* the trim positions set as the slider listener sets them
ProcEdit ==
    \E which \in {"start", "end"}, value \in SliderValues :
        /\ state = "Trimming"
        /\ LET r == SliderValueChanged(which, value, startPosition, endPosition)
           IN  /\ startPosition' = r.start
               /\ endPosition' = r.end
        /\ probe' = [op |-> "edit"]
        /\ UNCHANGED <<state, circularBuffer, trimmedBuffer, bufferDuration,
                       noteHistogram, mostCommonNote, isPreviewActive, previewPosition,
                       sampleRate, pitchDetector, sounds, voices, shown, out,
                       previewWindow, stream>>

\* previewTrimmedSample()
ProcPreview ==
    \E pick \in {1, 2} :
        /\ state = "Trimming"
        /\ HistogramTotal(noteHistogram) <= MaxAnalysed
        /\ PreviewTrimmedSample(pick)
        /\ probe' = [op |-> "preview"]
        /\ UNCHANGED <<state, circularBuffer, trimmedBuffer, bufferDuration,
                       startPosition, endPosition, sampleRate, pitchDetector, sounds,
                       voices, shown, out, stream>>

NextProc == ProcEnterTrim \/ ProcEdit \/ ProcPreview

SpecProc == InitProc /\ [][NextProc]_vars

\* C20: right after an entry into Trimming, from whatever state and after
\* whatever edits and previews, the trim region is start = 0, end = 1 and the
\* note histogram is empty.
C20_EntryResetsTrim ==
    probe.op = "enterTrimMode" =>
        /\ state = "Trimming"
        /\ startPosition = 0
        /\ endPosition = PosDen
        /\ noteHistogram = <<>>

\* an entry made after the region was edited and a preview had counted notes
C20_Witness ==
    /\ probe.op = "enterTrimMode"
    /\ probe.edited /\ probe.counted
    /\ probe.from = "Trimming"
    /\ startPosition = 0 /\ endPosition = PosDen
    /\ noteHistogram = <<>>

-----------------------------------------------------------------------------
(* Repeated previews: the session in Trimming after 4 s of tone "A", 4 s   *)
(* of tone "B" and silence up to a full ring were recorded and the 10 s    *)
(* button was clicked.  The trim bounds are set to 0, 4 s and 8 s and the  *)
(* preview button is clicked again and again.  probe holds the last call   *)
(* and, for a preview, the histogram and the most common note before it.   *)

ToneSeconds == 4

TwoToneStream ==
    [c \in Channels |->
        ToneBlock("A", ToneSeconds * CapRate)[c]
        \o ToneBlock("B", ToneSeconds * CapRate)[c]
        \o ToneBlock("S", RingSize - 2 * ToneSeconds * CapRate)[c]]

TwoToneRing == CbWrite(CircularAudioBuffer(NumChannels, RingSize), TwoToneStream)

PreviewSliderValues == {0, (ToneSeconds * PosDen) \div 10, (2 * ToneSeconds * PosDen) \div 10}

InitPreview ==
    /\ state = "Trimming"
    /\ circularBuffer = TwoToneRing
    /\ stream = TwoToneStream
    /\ bufferDuration = 10
    /\ sampleRate = CapRate
    /\ trimmedBuffer = CbCopyTo(TwoToneRing, ClearBuffer(NumChannels, 10 * CapRate),
                                0, 10 * CapRate)
    /\ startPosition = 0
    /\ endPosition = PosDen
    /\ noteHistogram = <<>>
    /\ mostCommonNote = 60
    /\ isPreviewActive = FALSE
    /\ previewPosition = 0
    /\ pitchDetector = PitchDetector(CapRate, HostBlock)
    /\ sounds = <<>>
    /\ voices = [i \in 1..NumVoices |-> BufferedSamplerVoice]
    /\ shown = UpdateControlsVisibility("Trimming")
    /\ out = [during |-> "Recording", live |-> TRUE, previewFrom |-> 0,
              previewLen |-> 0, voiced |-> {}]
    /\ previewWindow = <<0, 0>>
    /\ probe = [op |-> "none"]

\* sliderValueChanged on one of the trim sliders
PreviewEdit ==
    \E which \in {"start", "end"}, value \in PreviewSliderValues :
        /\ shown.trim
        /\ LET r == SliderValueChanged(which, value, startPosition, endPosition)
           IN  /\ startPosition' = r.start
               /\ endPosition' = r.end
        /\ probe' = [op |-> "edit"]
        /\ UNCHANGED <<state, circularBuffer, trimmedBuffer, bufferDuration,
                       noteHistogram, mostCommonNote, isPreviewActive, previewPosition,
                       sampleRate, pitchDetector, sounds, voices, shown, out,
                       previewWindow, stream>>

\* buttonClicked on the preview button, any number of times
PreviewAgain ==
    \E pick \in {1, 2} :
        /\ shown.trim
        /\ HistogramTotal(noteHistogram) <= MaxCounted
        /\ PreviewTrimmedSample(pick)
        /\ probe' = [op |-> "preview", pick |-> pick, before |-> noteHistogram,
                     was |-> mostCommonNote]
        /\ UNCHANGED <<state, circularBuffer, trimmedBuffer, bufferDuration,
                       startPosition, endPosition, sampleRate, pitchDetector, sounds,
                       voices, shown, out, stream>>

NextPreview == PreviewEdit \/ PreviewAgain

SpecPreview == InitPreview /\ [][NextPreview]_vars

\* C21: right after a preview of a window all of whose chunks give the same
\* note X, the most common note is X, also when other windows were previewed
\* before.
C21_PreviewReflectsWindow ==
    (/\ probe.op = "preview"
     /\ WindowAnalysis(1) = WindowAnalysis(2)
     /\ Cardinality(DOMAIN WindowAnalysis(1).histogram) = 1
     /\ HistogramTotal(WindowAnalysis(1).histogram)
           = (WindowEnd - WindowStart) \div ChunkSize)
    => mostCommonNote \in DOMAIN WindowAnalysis(1).histogram

\* the trimmed buffer with every sample the analysis of the window must not
\* read made indeterminate: channel 0 outside the whole chunks of the window,
\* and all of the other channels
C22_Masked ==
    LET n == (WindowEnd - WindowStart) \div ChunkSize
    IN  [c \in 1..Len(trimmedBuffer) |->
            [i \in 1..NumSamples(trimmedBuffer) |->
                IF c = 1 /\ i > WindowStart /\ i <= WindowStart + n * ChunkSize
                THEN trimmedBuffer[c][i] ELSE Uninit]]

\* the notes of the whole chunks of the window, in order
C22_Notes ==
    LET n == (WindowEnd - WindowStart) \div ChunkSize
    IN  [c \in 1..n |->
            ChunkNote(pitchDetector,
                      SubSeq(trimmedBuffer[1], WindowStart + (c - 1) * ChunkSize + 1,
                             WindowStart + c * ChunkSize),
                      probe.pick)]

\* C22: an analysis pass over a window of L samples counts the notes of the
\* floor(L / chunk) consecutive chunks of channel 0 from the window start, once
\* per chunk whose note is in 0..127, and its result does not depend on any
\* sample of the remainder, outside the window or of another channel.
C22_ChunksAnalysed ==
    probe.op = "preview" =>
        /\ noteHistogram = CountNotes(probe.before, C22_Notes)
        /\ HistogramTotal(noteHistogram) - HistogramTotal(probe.before)
              = Cardinality({c \in DOMAIN C22_Notes :
                                C22_Notes[c] >= 0 /\ C22_Notes[c] < 128})
        /\ DetectPitch(probe.before, probe.was, C22_Masked, pitchDetector,
                       startPosition, endPosition, probe.pick)
              = [histogram |-> noteHistogram, note |-> mostCommonNote]

\* a pass over a window with whole chunks and a remainder, after an earlier pass
C22_Witness ==
    /\ probe.op = "preview"
    /\ (WindowEnd - WindowStart) % ChunkSize # 0
    /\ (WindowEnd - WindowStart) \div ChunkSize >= 1
    /\ probe.before # <<>>
    /\ HistogramTotal(noteHistogram) > HistogramTotal(probe.before)

-----------------------------------------------------------------------------
(* A voice that is never sent a note-off: the first voice is started when  *)
(* it is free and rendered for as long as rendering changes anything.      *)

\* noteOn taken by the first voice, which is free
LiveStart ==
    \E note \in VoiceNotes, velocity \in Velocities :
        /\ voices[1].note < 0
        /\ voices' = [voices EXCEPT ![1] = StartNote(@, note, velocity, 1, sounds[1])]
        /\ UNCHANGED <<voiceIdle, probe>>

\* block lengths of the continued rendering
LiveBlockSizes == {1, 2}

\* renderNextBlock on the first voice
LiveRender ==
    \E numSamples \in LiveBlockSizes :
        /\ voices' = [voices EXCEPT
                         ![1] = RenderNextBlock(voices[1], sounds, numSamples).voice]
        /\ UNCHANGED <<voiceIdle, probe>>

NextVoiceLive == LiveStart \/ LiveRender

\* the host keeps calling processBlock, so rendering is not postponed forever
SpecVoiceLive == InitVoice /\ [][NextVoiceLive]_vars /\ WF_vars(LiveRender)

\* C23: under continued rendering and without a note-off, a voice that plays
\* a note is eventually freed, at every rate.
C23_VoiceEventuallyFreed == (voices[1].note >= 0) ~> (voices[1].note < 0)

-----------------------------------------------------------------------------
(* previewTrimmedSample on the message thread, statement by statement,     *)
(* while the audio thread runs processBlock.  isPreviewActive and          *)
(* previewPosition are plain members written without a lock, so the two    *)
(* stores become visible to the audio thread one at a time, in either      *)
(* order.                                                                  *)

InitRace ==
    /\ state = "Trimming"
    /\ circularBuffer = TwoToneRing
    /\ stream = TwoToneStream
    /\ bufferDuration = 10
    /\ sampleRate = CapRate
    /\ trimmedBuffer = CbCopyTo(TwoToneRing, ClearBuffer(NumChannels, 10 * CapRate),
                                0, 10 * CapRate)
    /\ startPosition = 0
    /\ endPosition = PosDen
    /\ noteHistogram = <<>>
    /\ mostCommonNote = 60
    /\ isPreviewActive = FALSE
    /\ previewPosition = 0
    /\ pitchDetector = PitchDetector(CapRate, HostBlock)
    /\ sounds = <<>>
    /\ voices = [i \in 1..NumVoices |-> BufferedSamplerVoice]
    /\ shown = UpdateControlsVisibility("Trimming")
    /\ out = [during |-> "Recording", live |-> TRUE, previewFrom |-> 0,
              previewLen |-> 0, voiced |-> {}]
    /\ previewWindow = <<0, 0>>
    /\ probe = [pc |-> "idle", pending |-> {}, startSample |-> 0, endSample |-> 0,
                wasActive |-> FALSE, pick |-> 1]

raceIdle == <<state, circularBuffer, trimmedBuffer, bufferDuration, sampleRate,
              pitchDetector, sounds, voices, shown, stream>>

\* sliderValueChanged between two clicks
RaceEdit ==
    \E which \in {"start", "end"}, value \in PreviewSliderValues :
        /\ probe.pc = "idle"
        /\ shown.trim
        /\ LET r == SliderValueChanged(which, value, startPosition, endPosition)
           IN  /\ startPosition' = r.start
               /\ endPosition' = r.end
        /\ UNCHANGED <<raceIdle, noteHistogram, mostCommonNote, isPreviewActive,
                       previewPosition, out, previewWindow, probe>>

\* previewTrimmedSample up to the copy into tempBuffer
RaceBegin ==
    \E pick \in {1, 2} :
        /\ probe.pc = "idle"
        /\ shown.trim
        /\ HistogramTotal(noteHistogram) <= MaxAnalysed
        /\ LET totalSamples == NumSamples(trimmedBuffer)
           IN  probe' = [pc |-> "stores", pending |-> {"isPreviewActive", "previewPosition"},
                         startSample |-> SampleOffset(startPosition, totalSamples),
                         endSample |-> SampleOffset(endPosition, totalSamples),
                         wasActive |-> isPreviewActive, pick |-> pick]
        /\ UNCHANGED <<raceIdle, startPosition, endPosition, noteHistogram,
                       mostCommonNote, isPreviewActive, previewPosition, out,
                       previewWindow>>

\* one of the two stores reaches the audio thread
RaceStore ==
    \E field \in probe.pending :
        /\ probe.pc = "stores"
        /\ IF field = "isPreviewActive"
           THEN isPreviewActive' = TRUE /\ UNCHANGED previewPosition
           ELSE previewPosition' = probe.startSample /\ UNCHANGED isPreviewActive
        /\ probe' = [probe EXCEPT !.pending = @ \ {field},
                                  !.pc = IF probe.pending = {field} THEN "detect" ELSE @]
        /\ UNCHANGED <<raceIdle, startPosition, endPosition, noteHistogram,
                       mostCommonNote, out, previewWindow>>

\* the detectPitch call that ends previewTrimmedSample
RaceDetect ==
    /\ probe.pc = "detect"
    /\ LET d == DetectPitch(noteHistogram, mostCommonNote, trimmedBuffer, pitchDetector,
                            startPosition, endPosition, probe.pick)
       IN  /\ noteHistogram' = d.histogram
           /\ mostCommonNote' = d.note
    /\ previewWindow' = <<probe.startSample, probe.endSample>>
    /\ probe' = [probe EXCEPT !.pc = "idle"]
    /\ UNCHANGED <<raceIdle, startPosition, endPosition, isPreviewActive,
                   previewPosition, out>>

\* processBlock runs on the audio thread at any point of the above
NextRace == RaceEdit \/ RaceBegin \/ RaceStore \/ RaceDetect \/ Tick

SpecRace == InitRace /\ [][NextRace]_vars

\* C24: the first block that plays the preview after previewTrimmedSample was
\* called on an inactive preview starts at the start of the window that call
\* computed; no block sees the preview active with the cursor of before.
C24_TickSeesWholeStart ==
    [][(~probe.wasActive /\ out.previewLen = 0 /\ out'.previewLen > 0)
          => out'.previewFrom = probe.startSample]_vars

-----------------------------------------------------------------------------
(* enterTrimMode on the message thread while the audio thread is inside    *)
(* processBlock.  Neither circularBuffer.write nor copyTo takes a lock, so *)
(* the channel loops of the two run in any order; a step is one pass of    *)
(* the channel loop.  probe.audio and probe.control are the positions of   *)
(* the two threads, probe.before and probe.after the ring before and after *)
(* the write that is under way.                                            *)

SnapTones == {"A", "B"}

InitSnap ==
    /\ IdleSession
    /\ circularBuffer = RecordedRing
    /\ stream = [c \in Channels |->
                    ToneBlock("A", BlockLen)[c] \o ToneBlock("S", BlockLen)[c]]
    /\ probe = [audio |-> "idle", channel |-> 0, block |-> <<>>,
                control |-> "idle", copied |-> 0,
                before |-> RecordedRing, after |-> RecordedRing]

snapIdle == <<sampleRate, pitchDetector, sounds, voices, isPreviewActive,
              previewPosition, mostCommonNote, previewWindow, out>>

\* processBlock up to the test state == Recording, which succeeds
SnapTickCheck ==
    \E tone \in SnapTones :
        /\ probe.audio = "idle"
        /\ Records(state)
        /\ Written + BlockLen <= MaxSnapTicks * BlockLen
        /\ probe' = [probe EXCEPT !.audio = "write", !.channel = 1,
                                  !.block = ToneBlock(tone, BlockLen),
                                  !.before = circularBuffer,
                                  !.after = CbWrite(circularBuffer,
                                                    ToneBlock(tone, BlockLen))]
        /\ UNCHANGED <<snapIdle, state, circularBuffer, stream, trimmedBuffer,
                       bufferDuration, startPosition, endPosition, noteHistogram,
                       shown>>

\* one pass of the channel loop of write
SnapTickWrite ==
    /\ probe.audio = "write"
    /\ probe.channel <= Min(Len(probe.block), Len(circularBuffer.buffer))
    /\ circularBuffer' =
           [circularBuffer EXCEPT
               !.buffer[probe.channel] =
                   WriteChannel(@, circularBuffer.writePos, circularBuffer.size,
                                probe.block[probe.channel])]
    /\ probe' = [probe EXCEPT !.channel = @ + 1]
    /\ UNCHANGED <<snapIdle, state, stream, trimmedBuffer, bufferDuration,
                   startPosition, endPosition, noteHistogram, shown>>

\* the end of write, and of processBlock: the cursor moves on
SnapTickEnd ==
    /\ probe.audio = "write"
    /\ probe.channel > Min(Len(probe.block), Len(circularBuffer.buffer))
    /\ circularBuffer' =
           [circularBuffer EXCEPT
               !.writePos = (@ + NumSamples(probe.block)) % circularBuffer.size]
    /\ stream' = [c \in Channels |-> stream[c] \o probe.block[c]]
    /\ probe' = [probe EXCEPT !.audio = "idle", !.channel = 0]
    /\ UNCHANGED <<snapIdle, state, trimmedBuffer, bufferDuration, startPosition,
                   endPosition, noteHistogram, shown>>

\* buttonClicked on a duration button: setBufferDuration, and enterTrimMode up
\* to the call of copyTo
SnapClick ==
    \E seconds \in Durations :
        /\ probe.control = "idle"
        /\ UpdateControlsVisibility(state).duration
        /\ bufferDuration' = seconds
        /\ state' = "Trimming"
        /\ trimmedBuffer' = ClearBuffer(NumChannels, RoundToInt(seconds * sampleRate, 1))
        /\ probe' = [probe EXCEPT
                        !.control = "copy", !.copied = 0,
                        !.before = IF probe.audio = "write" THEN @ ELSE circularBuffer,
                        !.after = IF probe.audio = "write" THEN @ ELSE circularBuffer]
        /\ UNCHANGED <<snapIdle, circularBuffer, stream, startPosition, endPosition,
                       noteHistogram, shown>>

\* one pass of the channel loop of copyTo
SnapCopy ==
    /\ probe.control = "copy"
    /\ probe.copied < Min(Len(trimmedBuffer), Len(circularBuffer.buffer))
    /\ trimmedBuffer' =
           [trimmedBuffer EXCEPT
               ![probe.copied + 1] =
                   CbCopyTo(circularBuffer, trimmedBuffer, 0,
                            RoundToInt(bufferDuration * sampleRate, 1))[probe.copied + 1]]
    /\ probe' = [probe EXCEPT !.copied = @ + 1]
    /\ UNCHANGED <<snapIdle, state, circularBuffer, stream, bufferDuration,
                   startPosition, endPosition, noteHistogram, shown>>

\* the rest of enterTrimMode, and of buttonClicked
SnapEntered ==
    /\ probe.control = "copy"
    /\ probe.copied >= Min(Len(trimmedBuffer), Len(circularBuffer.buffer))
    /\ startPosition' = 0
    /\ endPosition' = PosDen
    /\ noteHistogram' = <<>>
    /\ shown' = UpdateControlsVisibility(state)
    /\ probe' = [probe EXCEPT !.control = "entered"]
    /\ UNCHANGED <<snapIdle, state, circularBuffer, stream, trimmedBuffer,
                   bufferDuration>>

NextSnap ==
    \/ SnapTickCheck \/ SnapTickWrite \/ SnapTickEnd
    \/ SnapClick \/ SnapCopy \/ SnapEntered

SpecSnap == InitSnap /\ [][NextSnap]_vars

C25_Snapshot(ring) ==
    CbCopyTo(ring, ClearBuffer(NumChannels, NumSamples(trimmedBuffer)),
             0, NumSamples(trimmedBuffer))

\* C25: once Trim mode is entered, trimmedBuffer is the window of the ring as
\* it was at one instant: before the block write that was under way during
\* the entry, or after it, and never a mixture of the two.
C25_SnapshotOfOneInstant ==
    probe.control = "entered" =>
        trimmedBuffer \in {C25_Snapshot(probe.before), C25_Snapshot(probe.after)}

-----------------------------------------------------------------------------
(* The plug-in at the sample rates a host may run it at.  The ring is made *)
(* in the constructor for 48000 * 60 samples, whatever rate prepareToPlay  *)
(* is given later.                                                         *)

\* half the rate the ring was sized for, that rate, and twice it
HostRates == {CapRate \div 2, CapRate, 2 * CapRate}

InitRates ==
    /\ state = "Recording"
    /\ circularBuffer = CircularAudioBuffer(NumChannels, RingSize)
    /\ trimmedBuffer = NewBuffer(NumChannels, RingSize)
    /\ bufferDuration = 60
    /\ startPosition = 0
    /\ endPosition = PosDen
    /\ noteHistogram = <<>>
    /\ mostCommonNote = 60
    /\ isPreviewActive = FALSE
    /\ previewPosition = 0
    /\ sampleRate \in HostRates
    /\ pitchDetector = PitchDetector(sampleRate, HostBlock)
    /\ sounds = <<>>
    /\ voices = [i \in 1..NumVoices |-> BufferedSamplerVoice]
    /\ shown = UpdateControlsVisibility("Recording")
    /\ out = NoBlock
    /\ previewWindow = <<0, 0>>
    /\ stream = [c \in Channels |-> <<>>]
    /\ probe = [op |-> "none"]

NextRates == Tick \/ ClickDuration

SpecRates == InitRates /\ [][NextRates]_vars

\* C26: the window that enterTrimMode asks of the ring, which is the length
\* it gives trimmedBuffer, is at most the capacity of the ring.
C26_WindowWithinCapacity ==
    state = "Trimming" => NumSamples(trimmedBuffer) <= circularBuffer.size

-----------------------------------------------------------------------------
(* The cells that PitchDetector::detectPitch reads: of the frame it is     *)
(* given, in the difference function, and of yinBuffer, in the scan for    *)
(* the first minimum.  Indices are counted from 0, as in the source.       *)

\* step 1: buffer[j] and buffer[j + tau], for j and tau below yinBuffer.size()
FrameReads(w) ==
    {j : j \in 0..(w - 1)} \cup {j + tau : j \in 0..(w - 1), tau \in 0..(w - 1)}

RECURSIVE LagReads(_, _, _)
\* step 3, from lag tau: yinBuffer[tau], then yinBuffer[tau - 1] if the first
\* comparison succeeded, then yinBuffer[tau + 1] if the second did, too
LagReads(y, w, tau) ==
    IF tau >= w THEN {}
    ELSE IF ~Less(y[tau + 1], Threshold) THEN {tau} \cup LagReads(y, w, tau + 1)
    ELSE IF ~Less(y[tau + 1], y[tau]) THEN {tau, tau - 1} \cup LagReads(y, w, tau + 1)
    ELSE IF tau + 1 >= w THEN {tau, tau - 1, tau + 1}
    ELSE IF Less(y[tau + 1], y[tau + 2]) THEN {tau, tau - 1, tau + 1}
    ELSE {tau, tau - 1, tau + 1} \cup LagReads(y, w, tau + 1)

\* host blocks up to twice the length of the frame
WideHostBlocks == HostBlocks \cup {2 * YinFrame}

InitIndex ==
    /\ state = "Trimming"
    /\ circularBuffer = CircularAudioBuffer(NumChannels, SmallSize)
    /\ stream = [c \in Channels |-> <<>>]
    /\ trimmedBuffer = <<>>
    /\ bufferDuration = 60
    /\ startPosition = 0
    /\ endPosition = PosDen
    /\ noteHistogram = <<>>
    /\ mostCommonNote = 60
    /\ isPreviewActive = FALSE
    /\ previewPosition = 0
    /\ sampleRate = CapRate
    /\ \E samplesPerBlock \in WideHostBlocks :
          pitchDetector = PitchDetector(CapRate, samplesPerBlock)
    /\ sounds = <<>>
    /\ voices = <<>>
    /\ shown = UpdateControlsVisibility("Trimming")
    /\ out = NoBlock
    /\ previewWindow = <<0, 0>>
    /\ \E frame \in Frames : probe = [op |-> "frame", frame |-> frame]

\* pitchDetector->detectPitch(chunkData, chunkSize), for the cells it reads; when
\* the difference function has read past the frame, yinBuffer is indeterminate
\* and the scan is left out
IndexEstimate ==
    /\ probe.op = "frame"
    /\ LET w == pitchDetector.yinSize
       IN  probe' = [op |-> "estimate", frame |-> probe.frame,
                     frameReads |-> FrameReads(w),
                     lagReads |-> IF IndeterminateFrame(probe.frame, w) THEN {}
                                  ELSE LagReads(YinNormalised(
                                                    YinDifference(probe.frame, w), w),
                                                w, 2)]
    /\ UNCHANGED <<state, circularBuffer, stream, trimmedBuffer, bufferDuration,
                   startPosition, endPosition, noteHistogram, mostCommonNote,
                   isPreviewActive, previewPosition, sampleRate, pitchDetector,
                   sounds, voices, shown, out, previewWindow>>

NextIndex == IndexEstimate

SpecIndex == InitIndex /\ [][NextIndex]_vars

\* C27: every cell the estimator reads exists: the frame indices are below the
\* length of the frame, and the lag indices below the number of lags.
C27_ReadsInBounds ==
    probe.op = "estimate" =>
        /\ \A i \in probe.frameReads : i < Len(probe.frame)
        /\ \A i \in probe.lagReads : i < pitchDetector.yinSize

====
